---- MODULE Spec2Model ----
(***************************************************************************)
(* Refresh-token lifecycle of the Daily Diet API                           *)
(* (src/src/services/authService.js and the session endpoints).            *)
(*                                                                         *)
(* The token store is the refresh_tokens table.  Every prisma call is one  *)
(* atomic step of the database; a handler is suspended at each await, so   *)
(* the steps of concurrent requests interleave between the calls.          *)
(* Time is counted in days.                                                *)
(*                                                                         *)
(* calculateBestStreak (src/src/utils/streakCalculator.js) is a pure       *)
(* function; SpecStreak applies it to every argument up to a bound.        *)
(***************************************************************************)
EXTENDS Integers, Sequences, FiniteSets, TLC

\* ---------------------------------------------------------------- bounds
\* requests handled in one run
MaxRequests == 3
\* last day of the clock
MaxTime == 14
\* longest meal list handed to calculateBestStreak
MaxMeals == 7
\* meal and metrics requests handled in one run
MaxMealRequests == 4
\* createUser requests handled in one run
MaxUserRequests == 3

\* ------------------------------------------------------ program constants
REFRESH_TOKEN_EXPIRES_DAYS == 7

\* request slots: requests that may be in flight at the same time
Procs == {1, 2}

\* the users table (static here): id, email, password_hash
Hash(password) == <<"bcrypt", password>>

Users == { [id |-> "u1", email |-> "a@example.com", password_hash |-> Hash("pw1")],
           [id |-> "u2", email |-> "b@example.com", password_hash |-> Hash("pw2")] }

UserIds == { u.id : u \in Users }

\* inputs of a login request
Emails == { "a@example.com", "b@example.com", "nobody@example.com" }

Passwords == { "pw1", "pw2" }

\* days the clock may advance in one step: one step reaches the instant a
\* token issued now expires, two steps are past it
TickDays == { REFRESH_TOKEN_EXPIRES_DAYS }

\* a token value no row has ('invalid-token')
UnknownToken == 0

VARIABLES
  now,            \* the clock, new Date()
  refreshTokens,  \* the refresh_tokens table: a sequence of rows, id = index
  origin,         \* history: for each row the token value whose rotation created it (0: login)
  revokedAll,     \* users whose tokens were all revoked and who have not logged in since
  uuids,          \* number of values crypto.randomUUID() has returned
  started,        \* number of requests received so far
  pc,             \* where each request is
  req,            \* the local variables of each request
  resp,           \* the response of each finished request
  meals,          \* the argument of a calculateBestStreak call
  result,         \* the outcome of that call
  mealTable,      \* the meals table: a set of rows
  mealIds,        \* number of meal ids generated
  mealStarted,    \* number of meal and metrics requests received so far
  mealPc,         \* where each meal or metrics request is
  mealReq,        \* the local variables of each meal or metrics request
  mealResp,       \* the response of each finished meal or metrics request
  userTable,      \* the users table: a set of rows
  userIds,        \* number of user ids generated
  userStarted,    \* number of createUser requests received so far
  userPc,         \* where each createUser request is
  userReq,        \* the local variables of each createUser request
  userResp,       \* the response of each finished createUser request
  authToken,      \* the bearer token of the last request that passed through authenticate
  authResult,     \* what authenticate did with it
  authSessions    \* history: the refresh-token rows the token's user had at that moment

\* the state of the streak calculation
metricsVars == <<meals, result>>

\* the state of the meal and metrics services
mealVars == <<mealTable, mealIds, mealStarted, mealPc, mealReq, mealResp>>

\* the state of the user service
userVars == <<userTable, userIds, userStarted, userPc, userReq, userResp>>

\* the state of the authenticate middleware
accessVars == <<authToken, authResult, authSessions>>

\* what the auth service does not touch
outsideAuth == <<metricsVars, mealVars, userVars, accessVars>>

\* what the meal and metrics services do not touch
outsideMeals == <<now, refreshTokens, origin, revokedAll, uuids, started, pc, req, resp,
                  metricsVars, userVars, accessVars>>

vars == <<now, refreshTokens, origin, revokedAll, uuids, started, pc, req, resp, meals, result,
          mealTable, mealIds, mealStarted, mealPc, mealReq, mealResp,
          userTable, userIds, userStarted, userPc, userReq, userResp,
          authToken, authResult, authSessions>>

\* ------------------------------------------------------------- values
NoRow == [id |-> 0, user_id |-> "none", token |-> 0, expires_at |-> 0, revoked |-> FALSE]

NoAccess == [sub |-> "none"]

NoReq == [op |-> "none", email |-> "none", password |-> "none",
          token |-> 0, userId |-> "none", existingToken |-> NoRow,
          accessToken |-> NoAccess, newRefreshToken |-> 0, expiresAt |-> 0,
          issuedAt |-> 0, late |-> FALSE]

NoResp == [status |-> 0, code |-> "none", message |-> "none",
           token |-> NoAccess, refresh_token |-> 0]

\* AppError.auth(message): code AUTH_ERROR, status 401
AuthError(message) == [status |-> 401, code |-> "AUTH_ERROR", message |-> message,
                       token |-> NoAccess, refresh_token |-> 0]

\* AppError.internal(message): code INTERNAL_ERROR, status 500
InternalError == [status |-> 500, code |-> "INTERNAL_ERROR", message |-> "An unexpected error occurred",
                  token |-> NoAccess, refresh_token |-> 0]

\* res.status(200).json(tokens)
TokenPair(accessToken, refreshToken) ==
  [status |-> 200, code |-> "none", message |-> "none",
   token |-> accessToken, refresh_token |-> refreshToken]

\* res.status(204).send()
NoContent == [status |-> 204, code |-> "none", message |-> "none",
              token |-> NoAccess, refresh_token |-> 0]

\* an array of meals, as the argument of calculateBestStreak
MealList(items) == [kind |-> "array", items |-> items]

\* null and undefined as that argument
NullMeals == [kind |-> "null", items |-> << >>]

UndefinedMeals == [kind |-> "undefined", items |-> << >>]

\* outcomes of a call: none yet, a returned number, a thrown exception
NotCalled == [outcome |-> "none", value |-> 0]

Returned(n) == [outcome |-> "return", value |-> n]

Thrown == [outcome |-> "throw", value |-> 0]

\* a meal id no row has
UnknownMeal == 0

\* no meal row (findUnique returned null)
NoMeal == [id |-> 0, user_id |-> "none", datetime |-> 0, is_on_diet |-> FALSE]

\* the body of PUT /v1/meals/:id with no field given
NoData == [has_datetime |-> FALSE, datetime |-> 0, has_is_on_diet |-> FALSE, is_on_diet |-> FALSE]

NoMetrics == [total_meals |-> 0, total_on_diet |-> 0, total_off_diet |-> 0, best_streak |-> 0]

NoMealReq == [op |-> "none", userId |-> "none", mealId |-> 0, data |-> NoData]

NoMealResp == [status |-> 0, code |-> "none", message |-> <<"none">>,
               meal |-> NoMeal, metrics |-> NoMetrics]

\* AppError.notFound(resource): code NOT_FOUND, status 404, `${resource} not found`
NotFound(resource) ==
  [status |-> 404, code |-> "NOT_FOUND", message |-> <<resource, "not found">>,
   meal |-> NoMeal, metrics |-> NoMetrics]

\* res.status(status).json({ meal }), res.json(metrics), res.status(204).send()
MealJson(status, meal) ==
  [status |-> status, code |-> "none", message |-> <<"none">>,
   meal |-> meal, metrics |-> NoMetrics]

MetricsJson(metrics) ==
  [status |-> 200, code |-> "none", message |-> <<"none">>,
   meal |-> NoMeal, metrics |-> metrics]

NoUser == [id |-> "none", email |-> "none", password_hash |-> Hash("none")]

NoUserReq == [op |-> "none", email |-> "none", password |-> "none"]

NoUserResp == [status |-> 0, code |-> "none", message |-> "none", user |-> NoUser]

\* AppError.conflict(message): code CONFLICT, status 409
Conflict(message) == [status |-> 409, code |-> "CONFLICT", message |-> message, user |-> NoUser]

\* res.status(201).json({ message, user })
UserJson(user) ==
  [status |-> 201, code |-> "none", message |-> "User created successfully", user |-> user]

\* a request without a Bearer token in its Authorization header
NoBearer == [kind |-> "none", sub |-> "none", iat |-> 0]

\* a token that jwt.verify rejects: malformed, or signed with another secret
ForgedToken == [kind |-> "forged", sub |-> "none", iat |-> 0]

\* a token signed by generateAccessToken for user sub on day iat
SignedToken(sub, iat) == [kind |-> "jwt", sub |-> sub, iat |-> iat]

\* authenticate has not run
NotAuthenticated == [authenticated |-> FALSE, status |-> 0, code |-> "none",
                     message |-> "none", userId |-> "none"]

\* next(AppError.auth(message))
AuthFailure(message) == [authenticated |-> FALSE, status |-> 401, code |-> "AUTH_ERROR",
                         message |-> message, userId |-> "none"]

\* req.user = { id, email }; next()
Authenticated(userId) == [authenticated |-> TRUE, status |-> 0, code |-> "none",
                          message |-> "none", userId |-> userId]

\* ------------------------------------------------------------- helpers
\* jwt.sign({ sub: userId }, secret, { expiresIn })
generateAccessToken(userId) == [sub |-> userId]

\* variant: the value of the previous call is returned again
generateRefreshToken_again == IF uuids = 0 THEN 1 ELSE uuids

\* crypto.randomUUID(): a value never returned before
generateRefreshToken == uuids + 1

\* variant: the expiry is set one day ahead
getRefreshTokenExpiration_oneDay == now + 1

\* new Date() plus REFRESH_TOKEN_EXPIRES_DAYS days
getRefreshTokenExpiration == now + REFRESH_TOKEN_EXPIRES_DAYS

\* prisma.user.findUnique({ where: { email } })
FindUserByEmail(email) == { u \in Users : u.email = email }

\* bcrypt.compare(password, hash)
bcryptCompare(password, hash) == Hash(password) = hash

\* variant: a lookup that falls back to the first row when no row matches
findRefreshToken_first(token) ==
  IF \E i \in DOMAIN refreshTokens : refreshTokens[i].token = token
    THEN refreshTokens[CHOOSE i \in DOMAIN refreshTokens : refreshTokens[i].token = token]
    ELSE IF refreshTokens = << >> THEN NoRow ELSE refreshTokens[1]

\* prisma.refreshToken.findUnique({ where: { token } }): the row or null
findRefreshToken(token) ==
  IF \E i \in DOMAIN refreshTokens : refreshTokens[i].token = token
    THEN refreshTokens[CHOOSE i \in DOMAIN refreshTokens : refreshTokens[i].token = token]
    ELSE NoRow

\* prisma.refreshToken.create({ data }): the table with the new row
CreateRow(table, userId, token, expiresAt) ==
  Append(table, [id |-> Len(table) + 1, user_id |-> userId, token |-> token,
                 expires_at |-> expiresAt, revoked |-> FALSE])

\* variant: the where of the update matches no row
revokeRefreshToken_noMatch(table, tokenId) == table

\* variant: the update writes the negated flag
revokeRefreshToken_toggle(table, tokenId) ==
  [i \in DOMAIN table |-> IF table[i].id = tokenId
                            THEN [table[i] EXCEPT !.revoked = ~table[i].revoked]
                            ELSE table[i]]

\* variant: the update selects the rows by the owner of the row
revokeRefreshToken_byOwner(table, tokenId) ==
  [i \in DOMAIN table |->
     IF \E k \in DOMAIN table : table[k].id = tokenId /\ table[k].user_id = table[i].user_id
       THEN [table[i] EXCEPT !.revoked = TRUE]
       ELSE table[i]]

\* variant: the update also moves the expiry of the row to the present
revokeRefreshToken_expireNow(table, tokenId) ==
  [i \in DOMAIN table |-> IF table[i].id = tokenId
                            THEN [table[i] EXCEPT !.revoked = TRUE, !.expires_at = now]
                            ELSE table[i]]

\* prisma.refreshToken.update({ where: { id }, data: { revoked: true } })
revokeRefreshToken(table, tokenId) ==
  [i \in DOMAIN table |-> IF table[i].id = tokenId
                            THEN [table[i] EXCEPT !.revoked = TRUE]
                            ELSE table[i]]

\* variant: the updateMany has no user_id in its where
revokeAllUserTokens_anyUser(table, userId) ==
  [i \in DOMAIN table |-> IF table[i].revoked = FALSE
                            THEN [table[i] EXCEPT !.revoked = TRUE]
                            ELSE table[i]]

\* variant: the updateMany selects by user_id only and writes the negated flag
revokeAllUserTokens_toggle(table, userId) ==
  [i \in DOMAIN table |-> IF table[i].user_id = userId
                            THEN [table[i] EXCEPT !.revoked = ~table[i].revoked]
                            ELSE table[i]]

\* prisma.refreshToken.updateMany({ where: { user_id, revoked: false }, data: { revoked: true } })
revokeAllUserTokens(table, userId) ==
  [i \in DOMAIN table |-> IF table[i].user_id = userId /\ table[i].revoked = FALSE
                            THEN [table[i] EXCEPT !.revoked = TRUE]
                            ELSE table[i]]

\* a response is sent in the same turn of the event loop as the continuation
\* that produced it: no other step comes between the two
Quiet == \A q \in Procs : pc[q] # "done"

\* a request is received in the first free slot
Receive(p) ==
  /\ Quiet
  /\ pc[p] = "idle"
  /\ \A q \in Procs : q < p => pc[q] # "idle"
  /\ started < MaxRequests
  /\ started' = started + 1

\* the locals that remain of a finished request: what was asked
Finished(r) == [NoReq EXCEPT !.op = r.op, !.token = r.token, !.userId = r.userId,
                             !.late = r.late]

\* ------------------------------------------------------------- state
\* no refresh token has been issued and no session request is in flight
AuthStart ==
  /\ now = 0
  /\ refreshTokens = << >>
  /\ origin = << >>
  /\ revokedAll = {}
  /\ uuids = 0
  /\ started = 0
  /\ pc = [p \in Procs |-> "idle"]
  /\ req = [p \in Procs |-> NoReq]
  /\ resp = [p \in Procs |-> NoResp]

\* no streak calculation is under way
NoStreakCall ==
  /\ meals = MealList(<< >>)
  /\ result = NotCalled

\* the meals table is empty and no meal or metrics request is in flight
MealStart ==
  /\ mealTable = {}
  /\ mealIds = 0
  /\ mealStarted = 0
  /\ mealPc = [p \in Procs |-> "idle"]
  /\ mealReq = [p \in Procs |-> NoMealReq]
  /\ mealResp = [p \in Procs |-> NoMealResp]

\* the users table holds the users of the sessions above and no createUser
\* request is in flight
UserStart ==
  /\ userTable = Users
  /\ userIds = 0
  /\ userStarted = 0
  /\ userPc = [p \in Procs |-> "idle"]
  /\ userReq = [p \in Procs |-> NoUserReq]
  /\ userResp = [p \in Procs |-> NoUserResp]

\* no request has passed through authenticate
AccessStart ==
  /\ authToken = NoBearer
  /\ authResult = NotAuthenticated
  /\ authSessions = {}

Init == AuthStart /\ NoStreakCall /\ MealStart /\ UserStart /\ AccessStart

\* time passes
Tick(d) ==
  /\ Quiet
  /\ now + d <= MaxTime
  /\ now' = now + d
  /\ UNCHANGED <<refreshTokens, origin, uuids, pc, req, resp, started>>
  /\ UNCHANGED revokedAll
  /\ UNCHANGED outsideAuth

\* the response is sent and the request slot is free again
Respond(p) ==
  /\ pc[p] = "done"
  /\ pc' = [pc EXCEPT ![p] = "idle"]
  /\ req' = [req EXCEPT ![p] = NoReq]
  /\ resp' = [resp EXCEPT ![p] = NoResp]
  /\ UNCHANGED <<now, refreshTokens, origin, uuids, started>>
  /\ UNCHANGED revokedAll
  /\ UNCHANGED outsideAuth

\* ------------------------------------------------------------- login
\* variant: an unknown email gets a message of its own
LoginStart_userNotFound(p, email, password) ==
  /\ Receive(p)
  /\ LET found == FindUserByEmail(email) IN
       IF found = {}
         THEN /\ pc' = [pc EXCEPT ![p] = "done"]
              /\ req' = [req EXCEPT ![p] = [NoReq EXCEPT !.op = "login", !.email = email,
                                                   !.password = password]]
              /\ resp' = [resp EXCEPT ![p] = AuthError("User not found")]
              /\ UNCHANGED uuids
         ELSE LET user == CHOOSE u \in found : TRUE IN
           IF ~bcryptCompare(password, user.password_hash)
             THEN /\ pc' = [pc EXCEPT ![p] = "done"]
                  /\ req' = [req EXCEPT ![p] = [NoReq EXCEPT !.op = "login", !.email = email,
                                                   !.password = password]]
                  /\ resp' = [resp EXCEPT ![p] = AuthError("Invalid email or password")]
                  /\ UNCHANGED uuids
             ELSE /\ pc' = [pc EXCEPT ![p] = "login_create"]
                  /\ req' = [req EXCEPT ![p] =
                       [NoReq EXCEPT !.op = "login", !.email = email,
                                     !.password = password, !.userId = user.id,
                                     !.accessToken = generateAccessToken(user.id),
                                     !.newRefreshToken = generateRefreshToken,
                                     !.expiresAt = getRefreshTokenExpiration,
                                     !.issuedAt = now]]
                  /\ uuids' = uuids + 1
                  /\ UNCHANGED resp
  /\ UNCHANGED <<now, refreshTokens, origin>>
  /\ UNCHANGED revokedAll
  /\ UNCHANGED outsideAuth

\* login, up to the await of the create: user lookup, password check,
\* generation of the pair
LoginStart(p, email, password) ==
  /\ Receive(p)
  /\ LET found == FindUserByEmail(email) IN
       IF found = {}
         THEN /\ pc' = [pc EXCEPT ![p] = "done"]
              /\ req' = [req EXCEPT ![p] = [NoReq EXCEPT !.op = "login", !.email = email,
                                                   !.password = password]]
              /\ resp' = [resp EXCEPT ![p] = AuthError("Invalid email or password")]
              /\ UNCHANGED uuids
         ELSE LET user == CHOOSE u \in found : TRUE IN
           IF ~bcryptCompare(password, user.password_hash)
             THEN /\ pc' = [pc EXCEPT ![p] = "done"]
                  /\ req' = [req EXCEPT ![p] = [NoReq EXCEPT !.op = "login", !.email = email,
                                                   !.password = password]]
                  /\ resp' = [resp EXCEPT ![p] = AuthError("Invalid email or password")]
                  /\ UNCHANGED uuids
             ELSE /\ pc' = [pc EXCEPT ![p] = "login_create"]
                  /\ req' = [req EXCEPT ![p] =
                       [NoReq EXCEPT !.op = "login", !.email = email,
                                     !.password = password, !.userId = user.id,
                                     !.accessToken = generateAccessToken(user.id),
                                     !.newRefreshToken = generateRefreshToken,
                                     !.expiresAt = getRefreshTokenExpiration,
                                     !.issuedAt = now]]
                  /\ uuids' = uuids + 1
                  /\ UNCHANGED resp
  /\ UNCHANGED <<now, refreshTokens, origin>>
  /\ UNCHANGED revokedAll
  /\ UNCHANGED outsideAuth

\* login: prisma.refreshToken.create and the return
LoginCreate(p) ==
  /\ Quiet
  /\ pc[p] = "login_create"
  /\ refreshTokens' = CreateRow(refreshTokens, req[p].userId,
                                req[p].newRefreshToken, req[p].expiresAt)
  /\ origin' = Append(origin, 0)
  /\ pc' = [pc EXCEPT ![p] = "done"]
  /\ resp' = [resp EXCEPT ![p] = TokenPair(req[p].accessToken, req[p].newRefreshToken)]
  /\ req' = [req EXCEPT ![p] = Finished(req[p])]
  /\ UNCHANGED <<now, uuids, started>>
  /\ revokedAll' = revokedAll \ {req[p].userId}
  /\ UNCHANGED outsideAuth

\* ------------------------------------------------------------- rotate
\* a rotation presenting token value t has already succeeded
Rotated(t) == \E i \in DOMAIN origin : t # UnknownToken /\ origin[i] = t

\* rotateRefreshToken: prisma.refreshToken.findUnique({ where: { token } })
RotateFind(p, t) ==
  /\ Receive(p)
  /\ pc' = [pc EXCEPT ![p] = "rot_found"]
  /\ req' = [req EXCEPT ![p] =
       [NoReq EXCEPT !.op = "rotate", !.token = t,
                     !.existingToken = findRefreshToken(t),
                     !.late = Rotated(t)]]
  /\ UNCHANGED <<now, refreshTokens, origin, uuids, resp>>
  /\ UNCHANGED revokedAll
  /\ UNCHANGED outsideAuth

\* variant: a token counts as expired at the instant of its expires_at
IsExpired_inclusive(row) == now >= row.expires_at

\* new Date() > existingToken.expires_at
IsExpired(row) == now > row.expires_at

\* variant: the expiry of the row is checked before its revoked flag
RotateCheck_expiryFirst(p) ==
  /\ Quiet
  /\ pc[p] = "rot_found"
  /\ LET existingToken == req[p].existingToken IN
       IF existingToken = NoRow
         THEN /\ pc' = [pc EXCEPT ![p] = "done"]
              /\ resp' = [resp EXCEPT ![p] = AuthError("Invalid refresh token")]
              /\ req' = [req EXCEPT ![p] = Finished(req[p])]
              /\ UNCHANGED uuids
         ELSE IF IsExpired(existingToken)
           THEN /\ pc' = [pc EXCEPT ![p] = "rot_expired"]
                /\ UNCHANGED <<req, uuids, resp>>
           ELSE IF existingToken.revoked
             THEN /\ pc' = [pc EXCEPT ![p] = "rot_reuse"]
                  /\ UNCHANGED <<req, uuids, resp>>
             ELSE /\ pc' = [pc EXCEPT ![p] = "rot_commit"]
                  /\ req' = [req EXCEPT ![p].accessToken = generateAccessToken(existingToken.user_id),
                                        ![p].newRefreshToken = generateRefreshToken,
                                        ![p].expiresAt = getRefreshTokenExpiration,
                                        ![p].issuedAt = now]
                  /\ uuids' = uuids + 1
                  /\ UNCHANGED resp
  /\ UNCHANGED <<now, refreshTokens, origin, started>>
  /\ UNCHANGED revokedAll
  /\ UNCHANGED outsideAuth

\* rotateRefreshToken: the checks on the row that was read, up to the next await
RotateCheck(p) ==
  /\ Quiet
  /\ pc[p] = "rot_found"
  /\ LET existingToken == req[p].existingToken IN
       IF existingToken = NoRow
         THEN /\ pc' = [pc EXCEPT ![p] = "done"]
              /\ resp' = [resp EXCEPT ![p] = AuthError("Invalid refresh token")]
              /\ req' = [req EXCEPT ![p] = Finished(req[p])]
              /\ UNCHANGED uuids
         ELSE IF existingToken.revoked
           THEN /\ pc' = [pc EXCEPT ![p] = "rot_reuse"]
                /\ UNCHANGED <<req, uuids, resp>>
           ELSE IF IsExpired(existingToken)
             THEN /\ pc' = [pc EXCEPT ![p] = "rot_expired"]
                  /\ UNCHANGED <<req, uuids, resp>>
             ELSE /\ pc' = [pc EXCEPT ![p] = "rot_commit"]
                  /\ req' = [req EXCEPT ![p].accessToken = generateAccessToken(existingToken.user_id),
                                        ![p].newRefreshToken = generateRefreshToken,
                                        ![p].expiresAt = getRefreshTokenExpiration,
                                        ![p].issuedAt = now]
                  /\ uuids' = uuids + 1
                  /\ UNCHANGED resp
  /\ UNCHANGED <<now, refreshTokens, origin, started>>
  /\ UNCHANGED revokedAll
  /\ UNCHANGED outsideAuth

\* variant: on reuse only the presented row is revoked
RotateReuse_onlyPresented(p) ==
  /\ Quiet
  /\ pc[p] = "rot_reuse"
  /\ refreshTokens' = revokeRefreshToken(refreshTokens, req[p].existingToken.id)
  /\ pc' = [pc EXCEPT ![p] = "done"]
  /\ resp' = [resp EXCEPT ![p] = AuthError("Invalid refresh token")]
  /\ req' = [req EXCEPT ![p] = Finished(req[p])]
  /\ UNCHANGED <<now, origin, uuids, started>>
  /\ revokedAll' = revokedAll \cup {req[p].existingToken.user_id}
  /\ UNCHANGED outsideAuth

\* rotateRefreshToken, revoked token: revokeAllUserTokens and the throw
RotateReuse(p) ==
  /\ Quiet
  /\ pc[p] = "rot_reuse"
  /\ refreshTokens' = revokeAllUserTokens(refreshTokens, req[p].existingToken.user_id)
  /\ pc' = [pc EXCEPT ![p] = "done"]
  /\ resp' = [resp EXCEPT ![p] = AuthError("Invalid refresh token")]
  /\ req' = [req EXCEPT ![p] = Finished(req[p])]
  /\ UNCHANGED <<now, origin, uuids, started>>
  /\ revokedAll' = revokedAll \cup {req[p].existingToken.user_id}
  /\ UNCHANGED outsideAuth

\* variant: the expired row is not marked as revoked
RotateExpired_noCleanup(p) ==
  /\ Quiet
  /\ pc[p] = "rot_expired"
  /\ pc' = [pc EXCEPT ![p] = "done"]
  /\ resp' = [resp EXCEPT ![p] = AuthError("Refresh token expired")]
  /\ req' = [req EXCEPT ![p] = Finished(req[p])]
  /\ UNCHANGED <<now, refreshTokens, origin, uuids, started>>
  /\ UNCHANGED revokedAll
  /\ UNCHANGED outsideAuth

\* rotateRefreshToken, expired token: revokeRefreshToken and the throw
RotateExpired(p) ==
  /\ Quiet
  /\ pc[p] = "rot_expired"
  /\ refreshTokens' = revokeRefreshToken(refreshTokens, req[p].existingToken.id)
  /\ pc' = [pc EXCEPT ![p] = "done"]
  /\ resp' = [resp EXCEPT ![p] = AuthError("Refresh token expired")]
  /\ req' = [req EXCEPT ![p] = Finished(req[p])]
  /\ UNCHANGED <<now, origin, uuids, started>>
  /\ UNCHANGED revokedAll
  /\ UNCHANGED outsideAuth

\* variant: the transaction only creates the new row
RotateTransaction_createOnly(table, existingToken, newRefreshToken, expiresAt) ==
  CreateRow(table, existingToken.user_id, newRefreshToken, expiresAt)

\* variant: the transaction revokes every token of the user before it creates the new row
RotateTransaction_singleSession(table, existingToken, newRefreshToken, expiresAt) ==
  CreateRow(revokeAllUserTokens(table, existingToken.user_id),
            existingToken.user_id, newRefreshToken, expiresAt)

\* prisma.$transaction([update revoked of the old row, create the new row])
RotateTransaction(table, existingToken, newRefreshToken, expiresAt) ==
  CreateRow(revokeRefreshToken(table, existingToken.id),
            existingToken.user_id, newRefreshToken, expiresAt)

\* rotateRefreshToken: the transaction and the return
RotateCommit(p) ==
  /\ Quiet
  /\ pc[p] = "rot_commit"
  /\ refreshTokens' = RotateTransaction(refreshTokens, req[p].existingToken,
                                        req[p].newRefreshToken, req[p].expiresAt)
  /\ origin' = Append(origin, req[p].token)
  /\ pc' = [pc EXCEPT ![p] = "done"]
  /\ resp' = [resp EXCEPT ![p] = TokenPair(req[p].accessToken, req[p].newRefreshToken)]
  /\ req' = [req EXCEPT ![p] = Finished(req[p])]
  /\ UNCHANGED <<now, uuids, started>>
  /\ UNCHANGED revokedAll
  /\ UNCHANGED outsideAuth

\* variant: the two writes are sent one after the other, outside a transaction
RotateWrites_noTransaction(table, existingToken, newRefreshToken, expiresAt, created) ==
  IF created
    THEN RotateTransaction(table, existingToken, newRefreshToken, expiresAt)
    ELSE revokeRefreshToken(table, existingToken.id)

\* prisma.$transaction([update, create]) when the database accepts the create
\* and when it rejects it: both writes are applied, or neither
RotateWrites(table, existingToken, newRefreshToken, expiresAt, created) ==
  IF created
    THEN RotateTransaction(table, existingToken, newRefreshToken, expiresAt)
    ELSE table

\* rotateRefreshToken: the transaction is rejected by the database, the
\* rejection is thrown and errorHandler wraps it in AppError.internal
RotateAbort(p) ==
  /\ Quiet
  /\ pc[p] = "rot_commit"
  /\ refreshTokens' = RotateWrites(refreshTokens, req[p].existingToken,
                                   req[p].newRefreshToken, req[p].expiresAt, FALSE)
  /\ pc' = [pc EXCEPT ![p] = "done"]
  /\ resp' = [resp EXCEPT ![p] = InternalError]
  /\ req' = [req EXCEPT ![p] = Finished(req[p])]
  /\ UNCHANGED <<now, origin, uuids, started>>
  /\ UNCHANGED revokedAll
  /\ UNCHANGED outsideAuth

\* ------------------------------------------------------------- logout
\* POST /v1/logout without refresh_token, user u authenticated:
\* revokeAllUserTokens(u), 204
LogoutAll(p, u) ==
  /\ Receive(p)
  /\ refreshTokens' = revokeAllUserTokens(refreshTokens, u)
  /\ pc' = [pc EXCEPT ![p] = "done"]
  /\ req' = [req EXCEPT ![p] = [NoReq EXCEPT !.op = "logout_all", !.userId = u]]
  /\ resp' = [resp EXCEPT ![p] = NoContent]
  /\ UNCHANGED <<now, origin, uuids>>
  /\ revokedAll' = revokedAll \cup {u}
  /\ UNCHANGED outsideAuth

\* POST /v1/logout with refresh_token t, user u authenticated: findRefreshToken(t)
LogoutFind(p, u, t) ==
  /\ Receive(p)
  /\ pc' = [pc EXCEPT ![p] = "logout_found"]
  /\ req' = [req EXCEPT ![p] =
       [NoReq EXCEPT !.op = "logout_one", !.userId = u, !.token = t,
                     !.existingToken = findRefreshToken(t)]]
  /\ UNCHANGED <<now, refreshTokens, origin, uuids, resp>>
  /\ UNCHANGED revokedAll
  /\ UNCHANGED outsideAuth

\* variant: the token that was found is revoked whoever owns it
LogoutRevoke_anyOwner(p) ==
  /\ Quiet
  /\ pc[p] = "logout_found"
  /\ refreshTokens' =
       IF req[p].existingToken # NoRow
         THEN revokeRefreshToken(refreshTokens, req[p].existingToken.id)
         ELSE refreshTokens
  /\ pc' = [pc EXCEPT ![p] = "done"]
  /\ resp' = [resp EXCEPT ![p] = NoContent]
  /\ req' = [req EXCEPT ![p] = Finished(req[p])]
  /\ UNCHANGED <<now, origin, uuids, started>>
  /\ UNCHANGED revokedAll
  /\ UNCHANGED outsideAuth

\* POST /v1/logout with refresh_token: the token is revoked when it is the
\* user's own, and ignored otherwise; 204
LogoutRevoke(p) ==
  /\ Quiet
  /\ pc[p] = "logout_found"
  /\ refreshTokens' =
       IF req[p].existingToken # NoRow /\ req[p].existingToken.user_id = req[p].userId
         THEN revokeRefreshToken(refreshTokens, req[p].existingToken.id)
         ELSE refreshTokens
  /\ pc' = [pc EXCEPT ![p] = "done"]
  /\ resp' = [resp EXCEPT ![p] = NoContent]
  /\ req' = [req EXCEPT ![p] = Finished(req[p])]
  /\ UNCHANGED <<now, origin, uuids, started>>
  /\ UNCHANGED revokedAll
  /\ UNCHANGED outsideAuth

\* ------------------------------------------------------------- system
\* token values a request may present: the unknown value and the values issued
TokenValues == 0..uuids

Next ==
  \/ \E d \in TickDays : Tick(d)
  \/ \E p \in Procs : Respond(p)
  \/ \E p \in Procs, e \in Emails, w \in Passwords : LoginStart(p, e, w)
  \/ \E p \in Procs : LoginCreate(p)
  \/ \E p \in Procs, t \in TokenValues : RotateFind(p, t)
  \/ \E p \in Procs : RotateCheck(p)
  \/ \E p \in Procs : RotateReuse(p)
  \/ \E p \in Procs : RotateExpired(p)
  \/ \E p \in Procs : RotateCommit(p)
  \/ \E p \in Procs, u \in UserIds : LogoutAll(p, u)
  \/ \E p \in Procs, u \in UserIds, t \in TokenValues : LogoutFind(p, u, t)
  \/ \E p \in Procs : LogoutRevoke(p)

Spec == Init /\ [][Next]_vars

\* the session requests when the database may reject a transaction
NextFaults ==
  \/ Next
  \/ \E p \in Procs : RotateAbort(p)

SpecFaults == Init /\ [][NextFaults]_vars

\* ACCESS_TOKEN_EXPIRES_IN = '15m'
ACCESS_TOKEN_EXPIRES_MINUTES == 15

\* the clock counts days
MinutesPerDay == 24 * 60

\* the id of a user that is not in the users table
UnknownUser == "u0"

\* bearer tokens a request may carry: none, a forged one, and tokens issued
\* now or one step of the clock ago, for a user or for an unknown user
AccessInputs ==
  {NoBearer, ForgedToken} \cup
  { SignedToken(sub, iat) : sub \in UserIds \cup {UnknownUser},
                            iat \in {now} \cup {t \in {now - d : d \in TickDays} : t >= 0} }

\* jwt.verify of a signed token: TokenExpiredError once exp (iat + 15m) is reached
TokenExpired(token) ==
  now * MinutesPerDay >= token.iat * MinutesPerDay + ACCESS_TOKEN_EXPIRES_MINUTES

\* variant: the middleware also asks for an unrevoked refresh token of the user
authenticate_withSession(token) ==
  IF token.kind = "none" THEN AuthFailure("Authentication required")
  ELSE IF token.kind = "forged" THEN AuthFailure("Invalid token")
  ELSE IF TokenExpired(token) THEN AuthFailure("Token expired")
  ELSE IF ~ \E u \in Users : u.id = token.sub THEN AuthFailure("User not found")
  ELSE IF ~ \E i \in DOMAIN refreshTokens :
              refreshTokens[i].user_id = token.sub /\ ~refreshTokens[i].revoked
    THEN AuthFailure("Authentication required")
  ELSE Authenticated(token.sub)

\* authenticate: extractBearerToken, verifyAccessToken, prisma.user.findUnique
authenticate(token) ==
  IF token.kind = "none" THEN AuthFailure("Authentication required")
  ELSE IF token.kind = "forged" THEN AuthFailure("Invalid token")
  ELSE IF TokenExpired(token) THEN AuthFailure("Token expired")
  ELSE IF ~ \E u \in Users : u.id = token.sub THEN AuthFailure("User not found")
  ELSE Authenticated(token.sub)

\* a request carrying bearer token `token` passes through the middleware
Authenticate(token) ==
  /\ Quiet
  /\ started < MaxRequests
  /\ started' = started + 1
  /\ authToken' = token
  /\ authResult' = authenticate(token)
  /\ authSessions' = { refreshTokens[i] : i \in { k \in DOMAIN refreshTokens :
                                                 refreshTokens[k].user_id = token.sub } }
  /\ UNCHANGED <<now, refreshTokens, origin, revokedAll, uuids, pc, req, resp>>
  /\ UNCHANGED <<metricsVars, mealVars, userVars>>

\* the session requests together with requests to authenticated routes
NextAccess ==
  \/ Next
  \/ \E token \in AccessInputs : Authenticate(token)

SpecAccess == Init /\ [][NextAccess]_vars

TypeOK ==
  /\ now \in 0..MaxTime
  /\ Len(refreshTokens) <= MaxRequests
  /\ started <= MaxRequests
  /\ Len(origin) = Len(refreshTokens)
  /\ \A i \in DOMAIN refreshTokens : refreshTokens[i].id = i

\* ------------------------------------------------------------- streak
\* a meal, as far as calculateBestStreak reads it
Meals == { [is_on_diet |-> b] : b \in BOOLEAN }

\* the arguments tried: null, undefined and every list of at most MaxMeals meals
MealInputs ==
  {NullMeals, UndefinedMeals}
    \cup { MealList(items) : items \in UNION { [1..n -> Meals] : n \in 0..MaxMeals } }

\* the loop variables before the first meal
StreakStart == [currentStreak |-> 0, bestStreak |-> 0]

\* variant: an off-diet meal does not reset the current streak
StreakStep_noReset(s, meal) ==
  IF meal.is_on_diet
    THEN LET currentStreak == s.currentStreak + 1 IN
         [currentStreak |-> currentStreak,
          bestStreak |-> IF currentStreak > s.bestStreak THEN currentStreak ELSE s.bestStreak]
    ELSE s

\* variant: an off-diet meal resets the best streak as well
StreakStep_resetBest(s, meal) ==
  IF meal.is_on_diet
    THEN LET currentStreak == s.currentStreak + 1 IN
         [currentStreak |-> currentStreak,
          bestStreak |-> IF currentStreak > s.bestStreak THEN currentStreak ELSE s.bestStreak]
    ELSE [currentStreak |-> 0, bestStreak |-> 0]

\* the body of the for loop: one meal
StreakStep(s, meal) ==
  IF meal.is_on_diet
    THEN LET currentStreak == s.currentStreak + 1 IN
         [currentStreak |-> currentStreak,
          bestStreak |-> IF currentStreak > s.bestStreak THEN currentStreak ELSE s.bestStreak]
    ELSE [currentStreak |-> 0, bestStreak |-> s.bestStreak]

\* for (const meal of meals) { ... }; return bestStreak
StreakLoop(items) ==
  LET after[i \in 0..Len(items)] ==
        IF i = 0 THEN StreakStart ELSE StreakStep(after[i - 1], items[i])
  IN after[Len(items)].bestStreak

\* variant: no test for null and undefined; iterating over them throws
calculateBestStreak_noGuard(m) ==
  IF m.kind # "array" THEN Thrown ELSE Returned(StreakLoop(m.items))

\* calculateBestStreak(meals)
calculateBestStreak(m) ==
  IF m.kind # "array" \/ Len(m.items) = 0
    THEN Returned(0)
    ELSE Returned(StreakLoop(m.items))

\* a caller has some argument at hand
InitStreak ==
  /\ AuthStart
  /\ MealStart
  /\ UserStart
  /\ AccessStart
  /\ meals \in MealInputs
  /\ result = NotCalled

\* the call
CallStreak ==
  /\ result = NotCalled
  /\ result' = calculateBestStreak(meals)
  /\ UNCHANGED <<meals, now, refreshTokens, origin, revokedAll, uuids, started, pc, req, resp>>
  /\ UNCHANGED <<mealVars, userVars, accessVars>>

NextStreak == CallStreak

SpecStreak == InitStreak /\ [][NextStreak]_vars

\* ------------------------------------------------------------- meals
\* datetimes a meal may be given
MealTimes == {1, 2}

\* bodies of PUT /v1/meals/:id: nothing, a new is_on_diet, a new datetime
UpdateInputs ==
  { NoData,
    [NoData EXCEPT !.has_is_on_diet = TRUE, !.is_on_diet = FALSE],
    [NoData EXCEPT !.has_datetime = TRUE, !.datetime = 1] }

\* the response is sent in the turn of the event loop that produced it
MealQuiet == \A q \in Procs : mealPc[q] # "done"

\* a meal or metrics request is received in the first free slot
MealReceive(p) ==
  /\ MealQuiet
  /\ mealPc[p] = "idle"
  /\ \A q \in Procs : q < p => mealPc[q] # "idle"
  /\ mealStarted < MaxMealRequests
  /\ mealStarted' = mealStarted + 1

\* the meal as the responses carry it: the select, and the rest of
\* `{ user_id, ...mealData }`, have no user_id
Selected(meal) == [meal EXCEPT !.user_id = "none"]

\* prisma.meal.findUnique({ where: { id } }): the row or null
findMeal(table, mealId) ==
  IF \E m \in table : m.id = mealId
    THEN CHOOSE m \in table : m.id = mealId
    ELSE NoMeal

\* variant: no ownership check
getMealById_anyOwner(table, mealId, userId) ==
  LET meal == findMeal(table, mealId) IN
    IF meal = NoMeal THEN NotFound("Meal") ELSE MealJson(200, Selected(meal))

\* getMealById(mealId, userId): the meal, or the error thrown
getMealById(table, mealId, userId) ==
  LET meal == findMeal(table, mealId) IN
    IF meal = NoMeal
      THEN NotFound("Meal")
      ELSE IF meal.user_id # userId
        THEN NotFound("Meal")
        ELSE MealJson(200, Selected(meal))

\* the response is sent and the request slot is free again
MealRespond(p) ==
  /\ mealPc[p] = "done"
  /\ mealPc' = [mealPc EXCEPT ![p] = "idle"]
  /\ mealReq' = [mealReq EXCEPT ![p] = NoMealReq]
  /\ mealResp' = [mealResp EXCEPT ![p] = NoMealResp]
  /\ UNCHANGED <<mealTable, mealIds, mealStarted>>
  /\ UNCHANGED outsideMeals

\* createMeal: prisma.meal.create, 201
CreateMeal(p, u, datetime, is_on_diet) ==
  /\ MealReceive(p)
  /\ LET meal == [id |-> mealIds + 1, user_id |-> u,
                  datetime |-> datetime, is_on_diet |-> is_on_diet] IN
       /\ mealTable' = mealTable \cup {meal}
       /\ mealResp' = [mealResp EXCEPT ![p] = MealJson(201, Selected(meal))]
  /\ mealIds' = mealIds + 1
  /\ mealPc' = [mealPc EXCEPT ![p] = "done"]
  /\ mealReq' = [mealReq EXCEPT ![p] = [NoMealReq EXCEPT !.op = "create", !.userId = u]]
  /\ UNCHANGED outsideMeals

\* GET /v1/meals/:id: getMealById
GetMeal(p, u, mealId) ==
  /\ MealReceive(p)
  /\ mealResp' = [mealResp EXCEPT ![p] = getMealById(mealTable, mealId, u)]
  /\ mealPc' = [mealPc EXCEPT ![p] = "done"]
  /\ mealReq' = [mealReq EXCEPT ![p] =
       [NoMealReq EXCEPT !.op = "get", !.userId = u, !.mealId = mealId]]
  /\ UNCHANGED <<mealTable, mealIds>>
  /\ UNCHANGED outsideMeals

\* updateMeal, first await: getMealById; then updateData is built
UpdateCheck(p, u, mealId, data) ==
  /\ MealReceive(p)
  /\ mealReq' = [mealReq EXCEPT ![p] =
       [NoMealReq EXCEPT !.op = "update", !.userId = u, !.mealId = mealId, !.data = data]]
  /\ LET checked == getMealById(mealTable, mealId, u) IN
       IF checked.status # 200
         THEN /\ mealPc' = [mealPc EXCEPT ![p] = "done"]
              /\ mealResp' = [mealResp EXCEPT ![p] = checked]
         ELSE /\ mealPc' = [mealPc EXCEPT ![p] =
                   IF data = NoData THEN "update_reread" ELSE "update_write"]
              /\ UNCHANGED mealResp
  /\ UNCHANGED <<mealTable, mealIds>>
  /\ UNCHANGED outsideMeals

\* updateMeal with no field to update: return getMealById(...)
UpdateReread(p) ==
  /\ MealQuiet
  /\ mealPc[p] = "update_reread"
  /\ mealResp' = [mealResp EXCEPT ![p] =
       getMealById(mealTable, mealReq[p].mealId, mealReq[p].userId)]
  /\ mealPc' = [mealPc EXCEPT ![p] = "done"]
  /\ UNCHANGED <<mealTable, mealIds, mealStarted, mealReq>>
  /\ UNCHANGED outsideMeals

\* the row with the given fields of data written
Updated(meal, data) ==
  [meal EXCEPT !.datetime = IF data.has_datetime THEN data.datetime ELSE @,
               !.is_on_diet = IF data.has_is_on_diet THEN data.is_on_diet ELSE @]

\* updateMeal: prisma.meal.update({ where: { id }, data }); a missing row is
\* prisma's P2025, which the error handler turns into notFound('Record')
UpdateWrite(p) ==
  /\ MealQuiet
  /\ mealPc[p] = "update_write"
  /\ LET meal == findMeal(mealTable, mealReq[p].mealId) IN
       IF meal = NoMeal
         THEN /\ mealResp' = [mealResp EXCEPT ![p] = NotFound("Record")]
              /\ UNCHANGED mealTable
         ELSE /\ mealTable' = (mealTable \ {meal}) \cup {Updated(meal, mealReq[p].data)}
              /\ mealResp' = [mealResp EXCEPT ![p] =
                   MealJson(200, Selected(Updated(meal, mealReq[p].data)))]
  /\ mealPc' = [mealPc EXCEPT ![p] = "done"]
  /\ UNCHANGED <<mealIds, mealStarted, mealReq>>
  /\ UNCHANGED outsideMeals

\* deleteMeal, first await: getMealById
DeleteCheck(p, u, mealId) ==
  /\ MealReceive(p)
  /\ mealReq' = [mealReq EXCEPT ![p] =
       [NoMealReq EXCEPT !.op = "delete", !.userId = u, !.mealId = mealId]]
  /\ LET checked == getMealById(mealTable, mealId, u) IN
       IF checked.status # 200
         THEN /\ mealPc' = [mealPc EXCEPT ![p] = "done"]
              /\ mealResp' = [mealResp EXCEPT ![p] = checked]
         ELSE /\ mealPc' = [mealPc EXCEPT ![p] = "delete_write"]
              /\ UNCHANGED mealResp
  /\ UNCHANGED <<mealTable, mealIds>>
  /\ UNCHANGED outsideMeals

\* deleteMeal: prisma.meal.delete({ where: { id } }), 204; a missing row is P2025
DeleteWrite(p) ==
  /\ MealQuiet
  /\ mealPc[p] = "delete_write"
  /\ LET meal == findMeal(mealTable, mealReq[p].mealId) IN
       IF meal = NoMeal
         THEN /\ mealResp' = [mealResp EXCEPT ![p] = NotFound("Record")]
              /\ UNCHANGED mealTable
         ELSE /\ mealTable' = mealTable \ {meal}
              /\ mealResp' = [mealResp EXCEPT ![p] = MealJson(204, NoMeal)]
  /\ mealPc' = [mealPc EXCEPT ![p] = "done"]
  /\ UNCHANGED <<mealIds, mealStarted, mealReq>>
  /\ UNCHANGED outsideMeals

\* ------------------------------------------------------------- metrics
\* metricsService has its own calculateBestStreak: the body of its for loop
MetricsStreakStep(s, meal) ==
  IF meal.is_on_diet
    THEN LET currentStreak == s.currentStreak + 1 IN
         [currentStreak |-> currentStreak,
          bestStreak |-> IF currentStreak > s.bestStreak THEN currentStreak ELSE s.bestStreak]
    ELSE [currentStreak |-> 0, bestStreak |-> s.bestStreak]

\* its loop and return
MetricsStreakLoop(items) ==
  LET after[i \in 0..Len(items)] ==
        IF i = 0 THEN [currentStreak |-> 0, bestStreak |-> 0]
                 ELSE MetricsStreakStep(after[i - 1], items[i])
  IN after[Len(items)].bestStreak

\* calculateBestStreak of metricsService: `meals.length` throws a TypeError
\* when meals is null or undefined
MetricsCalculateBestStreak(m) ==
  IF m.kind # "array"
    THEN Thrown
    ELSE IF Len(m.items) = 0 THEN Returned(0) ELSE Returned(MetricsStreakLoop(m.items))

\* variant: the findMany has no where
MealsByDatetime_everyUser(table, userId) ==
  LET n == Cardinality(table)
  IN { list \in [1..n -> table] :
         /\ \A i, j \in 1..n : i # j => list[i] # list[j]
         /\ \A i, j \in 1..n : i < j => list[i].datetime <= list[j].datetime }

\* prisma.meal.findMany({ where: { user_id }, orderBy: { datetime: 'asc' } }):
\* the user's rows in an ascending order; rows of equal datetime come in any order
MealsByDatetime(table, userId) ==
  LET rows == { m \in table : m.user_id = userId }
      n == Cardinality(rows)
  IN { list \in [1..n -> rows] :
         /\ \A i, j \in 1..n : i # j => list[i] # list[j]
         /\ \A i, j \in 1..n : i < j => list[i].datetime <= list[j].datetime }

\* the totals and the streak computed from the list that was read
MetricsOf(list) ==
  [total_meals |-> Len(list),
   total_on_diet |-> Cardinality({ i \in DOMAIN list : list[i].is_on_diet }),
   total_off_diet |-> Cardinality({ i \in DOMAIN list : ~list[i].is_on_diet }),
   best_streak |-> MetricsCalculateBestStreak(MealList(list)).value]

\* GET /v1/metrics: getMetrics(userId)
GetMetrics(p, u) ==
  /\ MealReceive(p)
  /\ \E list \in MealsByDatetime(mealTable, u) :
       mealResp' = [mealResp EXCEPT ![p] = MetricsJson(MetricsOf(list))]
  /\ mealPc' = [mealPc EXCEPT ![p] = "done"]
  /\ mealReq' = [mealReq EXCEPT ![p] = [NoMealReq EXCEPT !.op = "metrics", !.userId = u]]
  /\ UNCHANGED <<mealTable, mealIds>>
  /\ UNCHANGED outsideMeals

\* meal ids a request may name: an unknown one and the ids generated
MealIdValues == 0..mealIds

NextMeals ==
  \/ \E p \in Procs : MealRespond(p)
  \/ \E p \in Procs, u \in UserIds, t \in MealTimes, d \in BOOLEAN : CreateMeal(p, u, t, d)
  \/ \E p \in Procs, u \in UserIds, i \in MealIdValues : GetMeal(p, u, i)
  \/ \E p \in Procs, u \in UserIds, i \in MealIdValues, data \in UpdateInputs :
       UpdateCheck(p, u, i, data)
  \/ \E p \in Procs : UpdateReread(p)
  \/ \E p \in Procs : UpdateWrite(p)
  \/ \E p \in Procs, u \in UserIds, i \in MealIdValues : DeleteCheck(p, u, i)
  \/ \E p \in Procs : DeleteWrite(p)
  \/ \E p \in Procs, u \in UserIds : GetMetrics(p, u)

SpecMeals == Init /\ [][NextMeals]_vars

\* ------------------------------------------------------------- users

\* emails a createUser request may carry, as typed by the client
UserEmailInputs == { "a@example.com", "A@EXAMPLE.COM", "c@example.com", "C@EXAMPLE.COM" }

\* createUserSchema: z.string().email().toLowerCase()
toLowerCase(email) ==
  CASE email = "A@EXAMPLE.COM" -> "a@example.com"
    [] email = "C@EXAMPLE.COM" -> "c@example.com"
    [] OTHER -> email

\* ids the database generates for new users, in order
NewUserIds == <<"u3", "u4", "u5", "u6", "u7">>

\* no request is in flight: the next one starts in a quiet system
UserQuiet == \A p \in Procs : userPc[p] \in {"idle", "done"}

\* a request is received in the first free slot
UserReceive(p) ==
  /\ userPc[p] = "idle"
  /\ \A q \in Procs : q < p => userPc[q] # "idle"
  /\ userStarted < MaxUserRequests

\* prisma.user.findUnique({ where: { email } })
findUserByEmail(table, email) ==
  IF \E u \in table : u.email = email
  THEN CHOOSE u \in table : u.email = email
  ELSE NoUser

\* prisma.user.create without the unique index on email
insertUser_noIndex(table, row) ==
  [inserted |-> TRUE, table |-> table \cup {row}]

\* prisma.user.create under the unique index users_email_key: a row with an
\* email the table already holds is rejected (P2002) and the table is unchanged
insertUser(table, row) ==
  IF \E u \in table : u.email = row.email
  THEN [inserted |-> FALSE, table |-> table]
  ELSE [inserted |-> TRUE, table |-> table \cup {row}]

\* select of prisma.user.create: the row without its password hash
SelectedUser(row) == [row EXCEPT !.password_hash = Hash("none")]

\* POST /v1/users up to the answer of findUnique: the body is validated and
\* createUser looks the email up
CreateUserFind(p, email, password) ==
  /\ UserReceive(p)
  /\ userStarted' = userStarted + 1
  /\ userReq' = [userReq EXCEPT ![p] =
                   [op |-> "create", email |-> toLowerCase(email), password |-> password]]
  /\ IF findUserByEmail(userTable, toLowerCase(email)) # NoUser
     THEN /\ userPc' = [userPc EXCEPT ![p] = "done"]
          /\ userResp' = [userResp EXCEPT ![p] = Conflict("Email already exists")]
     ELSE /\ userPc' = [userPc EXCEPT ![p] = "user_create"]
          /\ userResp' = userResp
  /\ UNCHANGED <<userTable, userIds>>
  /\ UNCHANGED <<now, refreshTokens, origin, revokedAll, uuids, started, pc, req, resp, metricsVars, mealVars, accessVars>>

\* the rest of createUser: bcrypt.hash, then prisma.user.create; a P2002 error
\* reaches errorHandler, which answers with a conflict
CreateUserInsert(p) ==
  /\ userPc[p] = "user_create"
  /\ LET row == [id |-> NewUserIds[userIds + 1], email |-> userReq[p].email,
                 password_hash |-> Hash(userReq[p].password)]
         out == insertUser(userTable, row)
     IN /\ userTable' = out.table
        /\ userIds' = userIds + 1
        /\ userResp' = [userResp EXCEPT ![p] =
                          IF out.inserted THEN UserJson(SelectedUser(row))
                          ELSE Conflict("email already exists")]
  /\ userPc' = [userPc EXCEPT ![p] = "done"]
  /\ UNCHANGED <<userStarted, userReq>>
  /\ UNCHANGED <<now, refreshTokens, origin, revokedAll, uuids, started, pc, req, resp, metricsVars, mealVars, accessVars>>

\* the response is sent and the slot is free again
UserRespond(p) ==
  /\ userPc[p] = "done"
  /\ UserQuiet
  /\ userStarted < MaxUserRequests
  /\ userPc' = [userPc EXCEPT ![p] = "idle"]
  /\ userReq' = [userReq EXCEPT ![p] = NoUserReq]
  /\ userResp' = [userResp EXCEPT ![p] = NoUserResp]
  /\ UNCHANGED <<userTable, userIds, userStarted>>
  /\ UNCHANGED <<now, refreshTokens, origin, revokedAll, uuids, started, pc, req, resp, metricsVars, mealVars, accessVars>>

NextUsers ==
  \/ \E p \in Procs, email \in UserEmailInputs, password \in Passwords :
        CreateUserFind(p, email, password)
  \/ \E p \in Procs : CreateUserInsert(p)
  \/ \E p \in Procs : UserRespond(p)

SpecUsers == Init /\ [][NextUsers]_vars

\* ------------------------------------------------------------- properties
\* the step of request p that ends its last await and produces the response
Completes(p, stage) == pc[p] = stage /\ pc'[p] = "done"

\* the step of request p that runs the checks on the row it has read
Checks(p) == pc[p] = "rot_found" /\ pc'[p] # "rot_found"

IsAuthError(r) == r.status = 401 /\ r.code = "AUTH_ERROR" /\ r.refresh_token = 0 /\ r.token = NoAccess

\* C1: of two rotateRefreshToken calls presenting the same active token, exactly
\* one returns a new pair: no token value is the origin of two rows, so the
\* presented token never has two successors.
C1_AtMostOneSuccessor ==
  \A i, j \in DOMAIN origin :
    (origin[i] # UnknownToken /\ origin[i] = origin[j]) => i = j

\* C2: when two rotateRefreshToken calls race on the same token, only one of
\* them gets past the checks with that row read as unrevoked; the other one
\* reads it as revoked.
C2_OnlyOneSeesActive ==
  \A p, q \in Procs :
    (p # q /\ pc[p] = "rot_commit" /\ pc[q] = "rot_commit")
      => req[p].existingToken.id # req[q].existingToken.id

\* what C3 asks of one step
C3_ReuseStep ==
  \A p \in Procs :
    /\ (pc[p] = "idle" /\ pc'[p] = "rot_found")
         => \A i \in DOMAIN refreshTokens :
              (refreshTokens[i].token = req'[p].token /\ refreshTokens[i].revoked)
                => req'[p].existingToken = refreshTokens[i]
    /\ (Checks(p) /\ req[p].existingToken # NoRow /\ req[p].existingToken.revoked)
         => (pc'[p] = "rot_reuse" /\ refreshTokens' = refreshTokens)
    /\ Completes(p, "rot_reuse")
         => /\ IsAuthError(resp'[p])
            /\ Len(refreshTokens') = Len(refreshTokens)
            /\ \A i \in DOMAIN refreshTokens :
                 IF refreshTokens[i].user_id = req[p].existingToken.user_id
                   THEN refreshTokens'[i] = [refreshTokens[i] EXCEPT !.revoked = TRUE]
                   ELSE refreshTokens'[i] = refreshTokens[i]

C4_RotateStep ==
  \A p \in Procs :
    /\ (Checks(p) /\ req[p].existingToken # NoRow
          /\ ~req[p].existingToken.revoked /\ now <= req[p].existingToken.expires_at)
         => pc'[p] = "rot_commit"
    /\ Completes(p, "rot_commit")
         => LET old == req[p].existingToken.id
                new == Len(refreshTokens) + 1 IN
            /\ Len(refreshTokens') = new
            /\ refreshTokens'[old].revoked
            /\ ~refreshTokens'[new].revoked
            /\ refreshTokens'[new].user_id = refreshTokens[old].user_id
            /\ resp'[p].status = 200
            /\ resp'[p].refresh_token = refreshTokens'[new].token
            /\ resp'[p].refresh_token # req[p].token
            /\ refreshTokens[old].token = req[p].token

\* C4: a rotateRefreshToken call whose row is unrevoked and not past its
\* expires_at proceeds to the transaction, and the transaction leaves the
\* presented row revoked and exactly one new row, unrevoked and of the same
\* user, whose value is returned and differs from the presented value.
C4_RotateSucceeds == [][C4_RotateStep]_vars

\* a rotation has succeeded at the very instant the presented token expires
C4_Witness ==
  \E p \in Procs :
    /\ pc[p] = "done" /\ req[p].op = "rotate" /\ resp[p].status = 200
    /\ \E i \in DOMAIN refreshTokens :
         refreshTokens[i].token = req[p].token /\ refreshTokens[i].expires_at = now

\* C5: a rotateRefreshToken call that starts after a rotation of the same
\* token value has succeeded never reaches the transaction, and ends with an
\* auth error and no token pair.
C5_SingleUse ==
  \A p \in Procs :
    (req[p].op = "rotate" /\ req[p].late)
      => /\ pc[p] # "rot_commit"
         /\ pc[p] = "done" => IsAuthError(resp[p])

\* a second use of a rotated token has been answered
C5_Witness ==
  \E p \in Procs : pc[p] = "done" /\ req[p].op = "rotate" /\ req[p].late

\* what C6 asks of one step
C6_ExpiredStep ==
  \A p \in Procs :
    /\ (Checks(p) /\ req[p].existingToken # NoRow
          /\ ~req[p].existingToken.revoked /\ now > req[p].existingToken.expires_at)
         => (pc'[p] = "rot_expired" /\ refreshTokens' = refreshTokens)
    /\ Completes(p, "rot_expired")
         => /\ IsAuthError(resp'[p])
            /\ resp'[p].message = "Refresh token expired"
            /\ Len(refreshTokens') = Len(refreshTokens)
            /\ refreshTokens'[req[p].existingToken.id].revoked
            /\ \A i \in DOMAIN refreshTokens :
                 i # req[p].existingToken.id => refreshTokens'[i] = refreshTokens[i]

\* C6: a rotateRefreshToken call whose row is unrevoked and past its
\* expires_at takes the expiry path, and there fails with the auth error
\* "Refresh token expired", revokes that row, creates no row and changes no
\* other row.
C6_ExpiredIsRevoked == [][C6_ExpiredStep]_vars

\* an expired token was presented while the same user held another, unrevoked token
C6_Witness ==
  \E p \in Procs :
    /\ pc[p] = "done" /\ req[p].op = "rotate"
    /\ resp[p].message = "Refresh token expired"
    /\ \E i, j \in DOMAIN refreshTokens :
         /\ refreshTokens[i].token = req[p].token /\ refreshTokens[i].revoked
         /\ now > refreshTokens[i].expires_at
         /\ refreshTokens[j].user_id = refreshTokens[i].user_id
         /\ ~refreshTokens[j].revoked

\* what C7 asks of one step
C7_RevokedStep ==
  \A i \in DOMAIN refreshTokens :
    refreshTokens[i].revoked
      => (i \in DOMAIN refreshTokens' /\ refreshTokens'[i].revoked)

\* C7: no step sets the revoked flag of a row back to false, and no step
\* removes a revoked row.
C7_RevokedIsAbsorbing == [][C7_RevokedStep]_vars

\* the transaction of a rotation ran on a row that was revoked in the meantime
C7_Witness ==
  \E p \in Procs :
    /\ pc[p] = "done" /\ req[p].op = "rotate" /\ resp[p].status = 200
    /\ \E i, j \in DOMAIN origin : i # j /\ origin[i] = req[p].token /\ origin[j] = req[p].token

\* what C8 asks of one step
C8_LoginStep ==
  \A p \in Procs :
    Completes(p, "login_create")
      => LET new == Len(refreshTokens) + 1 IN
         /\ Len(refreshTokens') = new
         /\ \A i \in DOMAIN refreshTokens : refreshTokens'[i] = refreshTokens[i]
         /\ ~refreshTokens'[new].revoked
         /\ \E u \in Users :
              /\ u.email = req[p].email
              /\ bcryptCompare(req[p].password, u.password_hash)
              /\ refreshTokens'[new].user_id = u.id
              /\ resp'[p].token.sub = u.id
         /\ refreshTokens'[new].expires_at = req[p].issuedAt + 7
         /\ resp'[p].status = 200
         /\ resp'[p].refresh_token = refreshTokens'[new].token

\* C8: the create of a successful login adds exactly one row: unrevoked, of
\* the user whose email and password were given, expiring 7 days after the
\* pair was generated; the response carries that row's value and an access
\* token whose subject is that user.
C8_LoginPersistsOneToken == [][C8_LoginStep]_vars

\* a login has succeeded after the clock moved
C8_Witness ==
  \E p \in Procs :
    /\ pc[p] = "done" /\ req[p].op = "login" /\ resp[p].status = 200
    /\ \E i \in DOMAIN refreshTokens :
         /\ refreshTokens[i].token = resp[p].refresh_token
         /\ refreshTokens[i].expires_at > REFRESH_TOKEN_EXPIRES_DAYS

\* what C9 asks of one step
C9_LogoutAllStep ==
  \A p \in Procs :
    (pc[p] = "idle" /\ pc'[p] = "done" /\ req'[p].op = "logout_all")
      => /\ Len(refreshTokens') = Len(refreshTokens)
         /\ \A i \in DOMAIN refreshTokens :
              IF refreshTokens[i].user_id = req'[p].userId
                THEN refreshTokens'[i].revoked
                ELSE refreshTokens'[i] = refreshTokens[i]

\* C9: the step of a logout without refresh_token leaves no row of the user
\* unrevoked and changes no row of another user.
C9_LogoutAllRevokesAll == [][C9_LogoutAllStep]_vars

\* a logout of everything ended while another user held an unrevoked token
C9_Witness ==
  \E p \in Procs :
    /\ pc[p] = "done" /\ req[p].op = "logout_all"
    /\ \E i, j \in DOMAIN refreshTokens :
         /\ refreshTokens[i].user_id = req[p].userId /\ refreshTokens[i].revoked
         /\ refreshTokens[j].user_id # req[p].userId /\ ~refreshTokens[j].revoked

\* what C10 asks of one step
C10_LogoutOneStep ==
  \A p \in Procs :
    (Completes(p, "logout_found") /\ req[p].existingToken # NoRow
       /\ req[p].existingToken.user_id = req[p].userId)
      => /\ Len(refreshTokens') = Len(refreshTokens)
         /\ refreshTokens'[req[p].existingToken.id].revoked
         /\ \A i \in DOMAIN refreshTokens :
              i # req[p].existingToken.id => refreshTokens'[i] = refreshTokens[i]

\* C10: the step of a logout with the user's own refresh_token revokes that
\* row and changes no other row.
C10_LogoutOneRevokesOnlyThat == [][C10_LogoutOneStep]_vars

\* a logout with a refresh_token ended and a sibling token of the user is unrevoked
C10_Witness ==
  \E p \in Procs :
    /\ pc[p] = "done" /\ req[p].op = "logout_one"
    /\ \E i, j \in DOMAIN refreshTokens :
         /\ refreshTokens[i].token = req[p].token /\ refreshTokens[i].revoked
         /\ refreshTokens[i].user_id = req[p].userId
         /\ i # j /\ refreshTokens[j].user_id = req[p].userId
         /\ ~refreshTokens[j].revoked

\* what C11 asks of one step
C11_ForeignStep ==
  \A p \in Procs :
    (Completes(p, "logout_found")
       /\ (req[p].existingToken = NoRow \/ req[p].existingToken.user_id # req[p].userId))
      => /\ refreshTokens' = refreshTokens
         /\ resp'[p] = NoContent

\* C11: the step of a logout with a refresh_token that is another user's, like
\* the step of a logout with a value no row has, changes no row and answers
\* with the same 204 response.
C11_ForeignTokenIsIgnored == [][C11_ForeignStep]_vars

\* a logout with another user's unrevoked token has ended, and the token is unrevoked
C11_Witness ==
  \E p \in Procs :
    /\ pc[p] = "done" /\ req[p].op = "logout_one"
    /\ \E i \in DOMAIN refreshTokens :
         /\ refreshTokens[i].token = req[p].token
         /\ refreshTokens[i].user_id # req[p].userId
         /\ ~refreshTokens[i].revoked

\* what C12 asks of one step
C12_IdempotentStep ==
  /\ \A i \in DOMAIN refreshTokens :
       LET once == revokeRefreshToken(refreshTokens, i) IN
         revokeRefreshToken(once, i) = once
  /\ \A u \in UserIds :
       LET once == revokeAllUserTokens(refreshTokens, u) IN
         revokeAllUserTokens(once, u) = once
  /\ \A p \in Procs :
       /\ (pc[p] = "idle" /\ pc'[p] = "done" /\ req'[p].op = "logout_all"
             /\ \A i \in DOMAIN refreshTokens :
                  refreshTokens[i].user_id = req'[p].userId => refreshTokens[i].revoked)
            => (refreshTokens' = refreshTokens /\ resp'[p] = NoContent)
       /\ (Completes(p, "logout_found") /\ req[p].existingToken # NoRow
             /\ req[p].existingToken.user_id = req[p].userId
             /\ refreshTokens[req[p].existingToken.id].revoked)
            => (refreshTokens' = refreshTokens /\ resp'[p] = NoContent)

\* C12: revokeRefreshToken and revokeAllUserTokens applied twice give the table
\* that one application gives, and a logout whose rows are already revoked
\* (one token, or all tokens of the user) changes no row and answers 204.
C12_RevokeIsIdempotent == [][C12_IdempotentStep]_vars

\* a logout with a refresh_token ended on a token that a rotation had revoked before
C12_Witness ==
  \E p \in Procs :
    /\ pc[p] = "done" /\ req[p].op = "logout_one" /\ resp[p] = NoContent
    /\ \E i, j \in DOMAIN refreshTokens :
         /\ refreshTokens[i].token = req[p].token
         /\ refreshTokens[i].user_id = req[p].userId
         /\ refreshTokens[i].revoked
         /\ origin[j] = req[p].token

\* C13: every failed rotateRefreshToken call is answered with the same error
\* (status, code and message), the one an unknown token gets, whether the
\* presented token was unknown, revoked or expired.
C13_SameErrorForEveryFailure ==
  \A p \in Procs :
    (pc[p] = "done" /\ req[p].op = "rotate" /\ resp[p].status # 200)
      => resp[p] = AuthError("Invalid refresh token")

\* what C14 asks of one step
C14_UnknownStep ==
  \A p \in Procs :
    /\ (pc[p] = "idle" /\ pc'[p] = "rot_found"
          /\ \A i \in DOMAIN refreshTokens : refreshTokens[i].token # req'[p].token)
         => (req'[p].existingToken = NoRow /\ refreshTokens' = refreshTokens)
    /\ (Checks(p) /\ req[p].existingToken = NoRow)
         => /\ pc'[p] = "done"
            /\ IsAuthError(resp'[p])
            /\ resp'[p].message = "Invalid refresh token"
            /\ refreshTokens' = refreshTokens

\* C14: a rotateRefreshToken call whose value matches no row reads no row, and
\* then fails with the auth error "Invalid refresh token"; neither step creates,
\* revokes or changes a row.
C14_UnknownTokenFails == [][C14_UnknownStep]_vars

\* a rotation with a value no row has was refused while an unrevoked token exists
C14_Witness ==
  \E p \in Procs :
    /\ pc[p] = "done" /\ req[p].op = "rotate" /\ IsAuthError(resp[p])
    /\ \A i \in DOMAIN refreshTokens : refreshTokens[i].token # req[p].token
    /\ \E i \in DOMAIN refreshTokens : ~refreshTokens[i].revoked

C16_FrameStep ==
  /\ \A p \in Procs :
       /\ Completes(p, "login_create")
            => \A i \in DOMAIN refreshTokens : refreshTokens'[i] = refreshTokens[i]
       /\ Completes(p, "rot_commit")
            => \A i \in DOMAIN refreshTokens :
                 i # req[p].existingToken.id => refreshTokens'[i] = refreshTokens[i]
  /\ (Len(refreshTokens') = started' /\ \A i \in DOMAIN origin' : origin'[i] = 0)
       => \A i \in DOMAIN refreshTokens' : ~refreshTokens'[i].revoked

\* C16: the create of a login changes no existing row, and the transaction of
\* a rotation changes no row but the presented one; when every request so far
\* was a successful login (as many rows as requests, all created by login),
\* every row is unrevoked.
C16_OtherTokensUntouched == [][C16_FrameStep]_vars

\* a rotation succeeded while a token from another login of the same user stays unrevoked
C16_Witness ==
  \E p \in Procs :
    /\ pc[p] = "done" /\ req[p].op = "rotate" /\ resp[p].status = 200
    /\ \E i, j \in DOMAIN refreshTokens :
         /\ refreshTokens[i].token = req[p].token
         /\ i # j /\ origin[j] = 0
         /\ refreshTokens[j].user_id = refreshTokens[i].user_id
         /\ ~refreshTokens[j].revoked

\* what C17 asks of one step
C17_LoginFailureStep ==
  \A p \in Procs :
    (pc[p] = "idle" /\ pc'[p] # "idle" /\ req'[p].op = "login"
       /\ \A u \in FindUserByEmail(req'[p].email) :
            ~bcryptCompare(req'[p].password, u.password_hash))
      => /\ pc'[p] = "done"
         /\ resp'[p] = AuthError("Invalid email or password")
         /\ resp'[p].status = 401 /\ resp'[p].code = "AUTH_ERROR"
         /\ refreshTokens' = refreshTokens
         /\ uuids' = uuids

\* C17: a login whose email no user has, and a login whose password does not
\* match the user's hash, both end at once with the same response (401,
\* AUTH_ERROR, "Invalid email or password"); no token is generated and no row
\* is created.
C17_LoginFailuresLookAlike == [][C17_LoginFailureStep]_vars

\* a login with a wrong password for an existing user was refused after that
\* user had logged in
C17_Witness ==
  \E p \in Procs :
    /\ pc[p] = "done" /\ req[p].op = "login" /\ resp[p].status = 401
    /\ \E u \in Users :
         /\ u.email = req[p].email
         /\ \E i \in DOMAIN refreshTokens : refreshTokens[i].user_id = u.id

\* the first n rows are one chain: a login, then rotations that each presented
\* the token of the row before
ChainTable(n) ==
  /\ n >= 1 /\ n <= Len(refreshTokens)
  /\ origin[1] = 0
  /\ \A i \in 2..n : origin[i] = refreshTokens[i - 1].token

\* request p is the next call of a sequential chain: every request before it
\* created its row, the rows are one chain, no other request is in flight and
\* p presented the token the last call returned, after it was returned
ChainRun(p) ==
  /\ pc[p] \in {"rot_found", "rot_reuse", "rot_expired", "rot_commit"}
  /\ \A q \in Procs \ {p} : pc[q] = "idle"
  /\ Len(refreshTokens) = started - 1
  /\ ChainTable(Len(refreshTokens))
  /\ req[p].token = refreshTokens[Len(refreshTokens)].token
  /\ req[p].existingToken # NoRow

\* C18 as stated: in a sequential run of one login followed by rotations that
\* each present the token the previous call returned, every call succeeds: no
\* call of the chain is ever on a failing path.
C18_ChainAlwaysSucceeds ==
  \A p \in Procs : ChainRun(p) => pc[p] \in {"rot_found", "rot_commit"}

\* what the amended C18 asks of one step
C18_ChainStep ==
  \A p \in Procs :
    /\ (ChainRun(p) /\ Checks(p) /\ now <= req[p].existingToken.expires_at)
         => pc'[p] = "rot_commit"
    /\ (ChainRun(p) /\ Completes(p, "rot_commit"))
         => LET last == Len(refreshTokens') IN
            /\ resp'[p].status = 200
            /\ last = started
            /\ origin'[1] = 0
            /\ \A i \in 2..last : origin'[i] = refreshTokens'[i - 1].token
            /\ resp'[p].refresh_token = refreshTokens'[last].token
            /\ \A i \in DOMAIN refreshTokens' : refreshTokens'[i].revoked <=> i # last

\* C18 (amended): in a sequential run of one login followed by rotations that
\* each present the token the previous call returned, a call whose checks run
\* no later than the expires_at of the presented token succeeds, and afterwards
\* exactly one row is unrevoked: the one whose value the call returned.
C18_ChainSucceedsUntilExpiry == [][C18_ChainStep]_vars

\* a login and two rotations in sequence, the second at the very instant its
\* token expires, have all succeeded
C18_Witness ==
  \E p \in Procs :
    /\ pc[p] = "done" /\ req[p].op = "rotate" /\ resp[p].status = 200
    /\ Len(refreshTokens) = 3 /\ started = 3 /\ ChainTable(3)
    /\ refreshTokens[2].expires_at = now
    /\ refreshTokens[1].revoked /\ refreshTokens[2].revoked /\ ~refreshTokens[3].revoked

\* the length of the longest contiguous run of on-diet meals in items
LongestRun(items) ==
  LET runs == { r \in (1..Len(items)) \X (1..Len(items)) :
                  r[1] <= r[2] /\ \A k \in r[1]..r[2] : items[k].is_on_diet }
      lengths == { r[2] - r[1] + 1 : r \in runs }
  IN IF runs = {} THEN 0 ELSE CHOOSE n \in lengths : \A m \in lengths : m <= n

\* C19: for every list of meals calculateBestStreak returns the length of the
\* longest contiguous run of meals with is_on_diet = true; runs that an
\* off-diet meal separates are not added together.
C19_BestStreakIsLongestRun ==
  (result # NotCalled /\ meals.kind = "array")
    => result = Returned(LongestRun(meals.items))

\* the call on three on-diet meals, one off-diet meal, three on-diet meals returned 3
C19_Witness ==
  /\ meals.kind = "array"
  /\ Len(meals.items) = 7
  /\ \A k \in 1..7 : meals.items[k].is_on_diet <=> k # 4
  /\ result = Returned(3)

\* C20: for the empty list, null and undefined calculateBestStreak returns 0
\* and does not throw.
C20_DegenerateInputsGiveZero ==
  (result # NotCalled /\ (meals.kind # "array" \/ meals.items = << >>))
    => result = Returned(0)

\* the call on null has returned 0
C20_Witness == meals = NullMeals /\ result = Returned(0)

\* the lists of all the rows in an ascending order of datetime
AscendingLists(rows) ==
  { list \in [1..Cardinality(rows) -> rows] :
      /\ { list[i] : i \in DOMAIN list } = rows
      /\ \A i \in DOMAIN list : i > 1 => list[i - 1].datetime <= list[i].datetime }

\* C21: the answer of getMetrics(userId) has total_meals = the number of that
\* user's meals, total_on_diet and total_off_diet = the numbers of them on and
\* off diet, summing to total_meals, and best_streak = calculateBestStreak of
\* them in an ascending order of datetime, at most total_on_diet; without
\* meals all four are 0.
C21_MetricsOfOwnMeals ==
  \A p \in Procs :
    (mealPc[p] = "done" /\ mealReq[p].op = "metrics")
      => LET rows == { m \in mealTable : m.user_id = mealReq[p].userId }
             metrics == mealResp[p].metrics
         IN /\ mealResp[p].status = 200
            /\ metrics.total_meals = Cardinality(rows)
            /\ metrics.total_on_diet = Cardinality({ m \in rows : m.is_on_diet })
            /\ metrics.total_off_diet = Cardinality({ m \in rows : ~m.is_on_diet })
            /\ metrics.total_meals = metrics.total_on_diet + metrics.total_off_diet
            /\ \E list \in AscendingLists(rows) :
                 Returned(metrics.best_streak) = calculateBestStreak(MealList(list))
            /\ metrics.best_streak <= metrics.total_on_diet
            /\ rows = {} => metrics = NoMetrics

\* metrics were answered for a user with an on-diet and a later off-diet meal
\* while another user has a meal
C21_Witness ==
  \E p \in Procs :
    /\ mealPc[p] = "done" /\ mealReq[p].op = "metrics"
    /\ \E m \in mealTable : m.user_id # mealReq[p].userId /\ m.is_on_diet
    /\ mealResp[p].metrics =
         [total_meals |-> 2, total_on_diet |-> 1, total_off_diet |-> 1, best_streak |-> 1]

\* what C22 asks of one step
C22_ForeignMealStep ==
  \A p \in Procs :
    (mealPc[p] = "idle" /\ mealPc'[p] # "idle"
       /\ mealReq'[p].op \in {"get", "update", "delete"}
       /\ ~\E m \in mealTable :
             m.id = mealReq'[p].mealId /\ m.user_id = mealReq'[p].userId)
      => /\ mealPc'[p] = "done"
         /\ mealResp'[p] = NotFound("Meal")
         /\ mealResp'[p].status = 404 /\ mealResp'[p].code = "NOT_FOUND"
         /\ mealTable' = mealTable

\* C22: getMealById, updateMeal and deleteMeal with the id of a meal of another
\* user end at their first step with the response an id no meal has gets (404,
\* NOT_FOUND, "Meal not found"), and the meals table is unchanged.
C22_ForeignMealIsNotFound == [][C22_ForeignMealStep]_vars

\* a delete of another user's meal was refused and the meal is still there
C22_Witness ==
  \E p \in Procs :
    /\ mealPc[p] = "done" /\ mealReq[p].op = "delete"
    /\ mealResp[p] = NotFound("Meal")
    /\ \E m \in mealTable : m.id = mealReq[p].mealId /\ m.user_id # mealReq[p].userId

\* C23: no two users share an email. A createUser call whose email already
\* belongs to a user, whether findUnique or the insert meets that user, is
\* answered with CONFLICT (409) and adds no row; a call that inserts adds
\* exactly its own row. Two calls racing with one new email create one user.
EmailsAreUnique(table) == \A a, b \in table : a.email = b.email => a = b

C23_CreateUserStep ==
  /\ EmailsAreUnique(userTable')
  /\ \A p \in Procs :
       /\ ( /\ userPc[p] = "idle" /\ userPc'[p] # "idle"
            /\ \E u \in userTable : u.email = userReq'[p].email )
          => /\ userPc'[p] = "done"
             /\ userResp'[p].status = 409
             /\ userResp'[p].code = "CONFLICT"
             /\ userTable' = userTable
       /\ ( /\ userPc[p] = "user_create" /\ userPc'[p] = "done"
            /\ \E u \in userTable : u.email = userReq[p].email )
          => /\ userResp'[p].status = 409
             /\ userResp'[p].code = "CONFLICT"
             /\ userTable' = userTable
       /\ ( /\ userPc[p] = "user_create" /\ userPc'[p] = "done"
            /\ ~ \E u \in userTable : u.email = userReq[p].email )
          => /\ userResp'[p].status = 201
             /\ Cardinality(userTable') = Cardinality(userTable) + 1
             /\ \E u \in userTable' \ userTable : u.email = userReq[p].email

C24_TransactionStep ==
  \A p \in Procs :
    Completes(p, "rot_commit") =>
      LET old == req[p].existingToken
          n == Len(refreshTokens) IN
        \/ /\ Len(refreshTokens') = n + 1
           /\ refreshTokens'[old.id].revoked
           /\ refreshTokens'[n + 1].token = req[p].newRefreshToken
           /\ refreshTokens'[n + 1].user_id = old.user_id
           /\ refreshTokens'[n + 1].revoked = FALSE
           /\ resp'[p].status = 200
        \/ /\ refreshTokens' = refreshTokens
           /\ resp'[p].status = 500

C24_RevokeAndCreateTogether == [][C24_TransactionStep]_vars

\* after one successful rotation, a second rotation met a rejected create and
\* the token it presented is still unrevoked
C24_Witness ==
  /\ \E i \in DOMAIN origin : origin[i] # UnknownToken
  /\ \E p \in Procs :
       /\ pc[p] = "done" /\ req[p].op = "rotate" /\ resp[p] = InternalError
       /\ \E i \in DOMAIN refreshTokens :
            refreshTokens[i].token = req[p].token /\ ~refreshTokens[i].revoked

\* C25: no step deletes a token row or changes the id, user_id, token value or
\* expires_at of an existing row; the only change a step makes to an existing
\* row is to set revoked from false to true.
C25_RowStep ==
  \A i \in DOMAIN refreshTokens :
    /\ i \in DOMAIN refreshTokens'
    /\ refreshTokens'[i].id = refreshTokens[i].id
    /\ refreshTokens'[i].user_id = refreshTokens[i].user_id
    /\ refreshTokens'[i].token = refreshTokens[i].token
    /\ refreshTokens'[i].expires_at = refreshTokens[i].expires_at
    /\ refreshTokens'[i].revoked # refreshTokens[i].revoked
         => (~refreshTokens[i].revoked /\ refreshTokens'[i].revoked)

C25_RowsOnlyGetRevoked == [][C25_RowStep]_vars

\* a rotation, the expiry clean-up or a logout has ended and a revoked row
\* is in the table whose expiry is not the present
C25_Witness ==
  /\ \E i \in DOMAIN refreshTokens :
       refreshTokens[i].revoked /\ refreshTokens[i].expires_at # now
  /\ \E p \in Procs :
       /\ pc[p] = "done"
       /\ \/ resp[p] = AuthError("Refresh token expired")
          \/ req[p].op \in {"logout_all", "logout_one"}
          \/ (req[p].op = "rotate" /\ resp[p].status = 200)

\* C26: once revokeAllUserTokens(u) has completed, by a logout of all sessions
\* or by the mass revocation on reuse, u holds no unrevoked refresh token
\* until the next successful login of u, also when a rotation of one of u's
\* tokens had read its row before the revocation ran.
C26_NoTokenAfterRevokeAll ==
  \A u \in revokedAll :
    \A i \in DOMAIN refreshTokens :
      refreshTokens[i].user_id = u => refreshTokens[i].revoked

\* C27: the revoked flag is checked before the expiry, so every revoked token
\* is treated alike: a call that read its row as revoked, expired or not and
\* however it was revoked, takes the reuse path, and there it fails with
\* "Invalid refresh token" and leaves no token of the row's user unrevoked.
C27_RevokedStep ==
  \A p \in Procs :
    /\ (Checks(p) /\ req[p].existingToken # NoRow /\ req[p].existingToken.revoked)
         => pc'[p] = "rot_reuse"
    /\ (Checks(p) /\ pc'[p] = "rot_expired") => ~req[p].existingToken.revoked
    /\ Completes(p, "rot_reuse")
         => /\ resp'[p] = AuthError("Invalid refresh token")
            /\ \A i \in DOMAIN refreshTokens' :
                 refreshTokens'[i].user_id = req[p].existingToken.user_id
                   => refreshTokens'[i].revoked

C27_RevokedBeforeExpired == [][C27_RevokedStep]_vars

\* a token that is both revoked and expired was presented, and the call
\* revoked a token of its user that had not expired
C27_Witness ==
  \E p \in Procs :
    /\ pc[p] = "done" /\ req[p].op = "rotate"
    /\ resp[p] = AuthError("Invalid refresh token")
    /\ \E i, j \in DOMAIN refreshTokens :
         /\ refreshTokens[i].token = req[p].token
         /\ now > refreshTokens[i].expires_at
         /\ refreshTokens[j].user_id = refreshTokens[i].user_id
         /\ now <= refreshTokens[j].expires_at
         /\ refreshTokens[j].revoked

\* C28: what authenticate answers depends on the bearer token and the users
\* table only: a request is authenticated exactly when its token is signed,
\* has not reached its expiry and names an existing user, whatever the
\* refresh-token table holds, and the middleware does not write to that
\* table. So a token issued before a revocation authenticates until it expires.
C28_AuthenticateStep ==
  (authToken' # authToken \/ authResult' # authResult)
    => /\ authResult'.authenticated
            <=> /\ authToken'.kind = "jwt"
                /\ now < authToken'.iat + 1
                /\ authToken'.sub \in UserIds
       /\ authResult'.authenticated => authResult'.userId = authToken'.sub
       /\ ~authResult'.authenticated => authResult'.status = 401
       /\ refreshTokens' = refreshTokens

C28_AccessIgnoresRefreshStore == [][C28_AuthenticateStep]_vars

\* a user who held no unrevoked refresh token, all having been revoked after
\* the last login, was authenticated with the access token of that login
C28_Witness ==
  /\ authResult.authenticated
  /\ \A row \in authSessions : row.revoked
  /\ \E row \in authSessions :
       /\ row.expires_at = authToken.iat + REFRESH_TOKEN_EXPIRES_DAYS
       /\ origin[row.id] = 0

\* C29: the calculateBestStreak of utils/streakCalculator.js and the one of
\* metricsService give the same outcome for every argument: whatever the
\* first has returned for an argument, the second returns for it too, also
\* for the empty list, null and undefined.
C29_BothStreaksAgree ==
  result # NotCalled => result = MetricsCalculateBestStreak(meals)

\* the list without its last meal
WithoutLast(items) == SubSeq(items, 1, Len(items) - 1)

\* C30: appending a meal to a list never lowers the result of
\* calculateBestStreak and raises it by at most one, and appending an off-diet
\* meal leaves it as it was: the result for a non-empty list, compared with
\* the result for the list without its last meal.
C30_AppendIsMonotone ==
  (result # NotCalled /\ meals.kind = "array" /\ Len(meals.items) >= 1)
    => LET before == calculateBestStreak(MealList(WithoutLast(meals.items)))
           last == meals.items[Len(meals.items)] IN
       /\ result.outcome = "return" /\ before.outcome = "return"
       /\ before.value <= result.value
       /\ result.value <= before.value + 1
       /\ ~last.is_on_diet => result.value = before.value

\* the on-diet meal at the end of a list of at least three meals, one of
\* them off diet, raised the result by one
C30_Witness ==
  /\ result # NotCalled /\ meals.kind = "array" /\ Len(meals.items) >= 3
  /\ \E i \in DOMAIN meals.items : ~meals.items[i].is_on_diet
  /\ meals.items[Len(meals.items)].is_on_diet
  /\ result.value = calculateBestStreak(MealList(WithoutLast(meals.items))).value + 1

====
